---- MODULE Spec2Model ----
(***************************************************************************)
(* A model of WRTS.py, the Tk flashcard trainer (class LanguageLearnerApp). *)
(* Every Tk callback is one atomic action: Tk runs callbacks one at a time  *)
(* on a single event loop.  The only asynchrony is self.after(1200, ...),   *)
(* modelled by the counter `pending` of registered, not yet fired calls of  *)
(* next_card.                                                               *)
(*                                                                         *)
(* A card is referred to by its index in self.cards (Python keeps object    *)
(* references; the queues hold the same dict objects as self.cards).        *)
(* A word is a sequence of one-character strings.                           *)
(* The model takes word lists with two distinct language columns, selected  *)
(* by default as source and target.                                         *)
(***************************************************************************)
EXTENDS Integers, Sequences, FiniteSets, TLC

\* ---------------------------------------------------------------- bounds
\* rows of the largest word list that is loaded
MaxRows == 2
\* a card is answered incorrectly at most this many times
MaxIncorrect == 2
\* at most this many deferred next_card calls are registered at a time
MaxPending == 2
\* largest value chosen in the mismatch spinbox (the widget allows 0..10)
MaxMismatch == 0
\* rows of the word list of the long session (LongSpec)
LongRows == 8
\* incorrect answers in the long session
MaxMisses == 1
\* incorrect answers in the long self-paced session (RequeueSpec)
RequeueMisses == 2
\* cards of the longest session of ManySpec
ManyCards == 161
\* cards of the finishing session (EndSpec) that may each have been missed
EndCards == 5
\* never missed cards that may come before them in self.cards
EndZeros == 4
\* incorrect answers a card of the finishing session has got
EndMisses == 3
\* longest word over Letters that calculate_mismatch is called with
MaxWordLen == 2
\* rows of the word list of the typed session (DicteeSpec)
DicteeRows == 4
\* the looser of the two thresholds of the typed session
DicteeMismatch == 5

\* ------------------------------------------------------- program constants
\* random.randint(3, 6)
MinOffset == 3
MaxOffset == 6
\* ttk.Spinbox(select_frame, from_=1, to=10, ...)
NewListFrom == 1
NewListTo == 10

VARIABLES
    screen,            \* which frame is packed: file_selection, settings, session, end
    df,                \* self.df: -1 for None, else the number of rows
    next_button,       \* state of the Next button: "disabled" or "normal"
    learning_method_var,
    mismatch_var,
    mismatch_spinbox,  \* state of the spinbox: "disabled" or "normal"
    cards,             \* self.cards: sequence of card records
    queue,             \* self.queue: sequence of card indices
    final_queue,       \* self.final_queue
    current_card,      \* self.current_card: 0 for None, else a card index
    total_unique,
    correct_count,
    incorrect_overall,
    pending,           \* registered self.after(1200, self.next_card) calls not yet run
    error,             \* how the last callback ended: "" or the error it reported
    awaiting,          \* history: the current card was presented and not resolved since
    requeue,           \* history: of the last callback's call of schedule_incorrect_card,
                       \* card, len(self.queue), insert_index and whether the queue
                       \* was shorter than the offset drawn
    final_pass,        \* history: final_queue was loaded into queue in this session
    shown_final,       \* history: per card, presentations since final_pass
    shown,             \* history: per card, presentations in this session
    score,             \* the score result_label shows: -1 with no end frame
    message,           \* the message result_label shows: "" with no end frame
    new_file,          \* rows of the list create_new_list wrote last: <<>> for none
    state,             \* self.state, the layout of the session frame: "normal" or
                       \* "fullscreen"
    call               \* a call of calculate_mismatch on its own: word1, word2
                       \* and the value returned, -1 before the return

appVars == <<screen, df, next_button, learning_method_var, mismatch_var,
             mismatch_spinbox, cards, queue, final_queue, current_card,
             total_unique, correct_count, incorrect_overall, pending, error,
             awaiting, requeue, final_pass, shown_final, shown, score,
             message,
             new_file, state>>

vars == <<appVars, call>>

sessionVars == <<cards, queue, final_queue, current_card, total_unique,
                 correct_count, incorrect_overall>>

historyVars == <<awaiting, requeue, final_pass, shown_final, shown>>

settingsVars == <<learning_method_var, mismatch_var, mismatch_spinbox>>

\* The end frame and what is outside the running program.
endVars == <<score, message, new_file, call>>

\* ---------------------------------------------------------------- words
Lower(ch) == CASE ch = "A" -> "a" [] ch = "B" -> "b" [] OTHER -> ch

lower(word) == [i \in 1..Len(word) |-> Lower(word[i])]

RECURSIVE lstrip(_)
lstrip(word) ==
    IF word # <<>> /\ Head(word) = " " THEN lstrip(Tail(word)) ELSE word

RECURSIVE rstrip(_)
rstrip(word) ==
    IF word # <<>> /\ word[Len(word)] = " "
    THEN rstrip(SubSeq(word, 1, Len(word) - 1))
    ELSE word

\* str.strip left out.
strip_nothing(word) == word

strip(word) == rstrip(lstrip(word))

Abs(x) == IF x < 0 THEN -x ELSE x

Min(x, y) == IF x < y THEN x ELSE y

Max(x, y) == IF x > y THEN x ELSE y

\* calculate_mismatch without the difference of the lengths.
calculate_mismatch_common(word1, word2) ==
    LET w1 == lower(word1)
        w2 == lower(word2)
        common_length == Min(Len(w1), Len(w2))
    IN  Cardinality({i \in 1..common_length : w1[i] # w2[i]})

calculate_mismatch(word1, word2) ==
    LET w1 == lower(word1)
        w2 == lower(word2)
        len_diff == Abs(Len(w1) - Len(w2))
        common_length == Min(Len(w1), Len(w2))
        char_mismatch == Cardinality({i \in 1..common_length : w1[i] # w2[i]})
    IN  len_diff + char_mismatch

\* The word list on disk: the target word of each row.
Target(row) ==
    IF row % 4 = 0 THEN <<"k", "a", "a", "s", "s", "o", "o", "r", "t">>
    ELSE IF row % 2 = 1 THEN <<"a", "b">> ELSE <<"B">>

\* The word list on disk: the source word of each row, one per row.
Source(row) == [i \in 1..row |-> "x"]

\* What the learner may have typed in answer_entry when OK is pressed.
TypedAnswers == {<<>>, <<"a", "b">>, <<" ", "A", "B", " ">>, <<"b">>, <<"a">>}

\* The same for word lists of four rows or more, which hold "kaassoort".
DicteeAnswers ==
    TypedAnswers
    \cup {<<"k", "a", "a", "s">>, <<"k", "a", "a", "s", "s", "o", "o", "r", "t">>}

\* No call of calculate_mismatch on its own.
NoCall == [word1 |-> <<>>, word2 |-> <<>>, result |-> -1]

Letters == {"a", "A", "b"}

\* The words calculate_mismatch is called with on its own.
Words ==
    UNION {[1..n -> Letters] : n \in 0..MaxWordLen}
    \cup {<<"k", "a", "a", "s">>, <<"k", "a", "a", "s", "s", "o", "o", "r", "t">>}

\* ---------------------------------------------------------------- cards
\* No call of schedule_incorrect_card in the last callback.
NoRequeue == [card |-> 0, short |-> FALSE, len |-> -1, insert_index |-> -1]

NewCard(row) ==
    [row |-> row, delayed_scheduled |-> FALSE, final_scheduled |-> FALSE,
     completed |-> FALSE, incorrect_count |-> 0]

\* Rows drawn one by one with replacement instead of shuffled.
Resamples(n) == [1..n -> 1..n]

\* The orders random.shuffle can leave n rows in.
Shuffles(n) ==
    {p \in [1..n -> 1..n] : \A i, j \in 1..n : i # j => p[i] # p[j]}

InsertAt(q, i, x) == SubSeq(q, 1, i) \o <<x>> \o SubSeq(q, i + 1, Len(q))

\* schedule_incorrect_card without the final_scheduled test.
schedule_always_final(cs, q, fq, card, offset) ==
    LET idx == Min(offset, Len(q))
    IN  [cards |-> [cs EXCEPT ![card].final_scheduled = TRUE],
         queue |-> InsertAt(q, idx, card),
         final_queue |-> Append(fq, card),
         requeue |-> [card |-> card, short |-> Len(q) < offset, len |-> Len(q),
                     insert_index |-> idx]]

\* schedule_incorrect_card counting the offset from 1 instead of 0.
schedule_off_by_one(cs, q, fq, card, offset) ==
    LET idx == Min(offset - 1, Len(q))
        first == ~cs[card].final_scheduled
    IN  [cards |-> IF first THEN [cs EXCEPT ![card].final_scheduled = TRUE] ELSE cs,
         queue |-> InsertAt(q, idx, card),
         final_queue |-> IF first THEN Append(fq, card) ELSE fq,
         requeue |-> [card |-> card, short |-> Len(q) < offset, len |-> Len(q),
                     insert_index |-> idx]]

\* schedule_incorrect_card taking back the count of the miss.
schedule_uncounted(cs, q, fq, card, offset) ==
    LET idx == Min(offset, Len(q))
        first == ~cs[card].final_scheduled
    IN  [cards |-> [cs EXCEPT ![card].final_scheduled = TRUE,
                              ![card].incorrect_count = @ - 1],
         queue |-> InsertAt(q, idx, card),
         final_queue |-> IF first THEN Append(fq, card) ELSE fq,
         requeue |-> [card |-> card, short |-> Len(q) < offset, len |-> Len(q),
                     insert_index |-> idx]]

\* schedule_incorrect_card leaving final_scheduled as it is.
schedule_unflagged(cs, q, fq, card, offset) ==
    LET idx == Min(offset, Len(q))
    IN  [cards |-> cs,
         queue |-> InsertAt(q, idx, card),
         final_queue |-> IF ~cs[card].final_scheduled THEN Append(fq, card) ELSE fq,
         requeue |-> [card |-> card, short |-> Len(q) < offset, len |-> Len(q),
                     insert_index |-> idx]]

\* schedule_incorrect_card with the offset random.randint drew
schedule_incorrect_card(cs, q, fq, card, offset) ==
    LET idx == Min(offset, Len(q))
        first == ~cs[card].final_scheduled
    IN  [cards |-> IF first THEN [cs EXCEPT ![card].final_scheduled = TRUE] ELSE cs,
         queue |-> InsertAt(q, idx, card),
         final_queue |-> IF first THEN Append(fq, card) ELSE fq,
         requeue |-> [card |-> card, short |-> Len(q) < offset, len |-> Len(q),
                     insert_index |-> idx]]

\* next_card without the skip of a completed card.
next_card_no_skip(cs, q, fq, cur, refilled) ==
    IF q = <<>> /\ fq = <<>>
    THEN [queue |-> q, final_queue |-> fq, current_card |-> cur,
          ended |-> TRUE, refilled |-> refilled]
    ELSE LET q1 == IF q = <<>> THEN fq ELSE q
             fq1 == IF q = <<>> THEN <<>> ELSE fq
         IN  [queue |-> Tail(q1), final_queue |-> fq1, current_card |-> Head(q1),
              ended |-> FALSE, refilled |-> refilled \/ q = <<>>]

\* next_card ending the session as soon as the main queue is empty.
RECURSIVE next_card_no_refill(_, _, _, _, _)
next_card_no_refill(cs, q, fq, cur, refilled) ==
    IF q = <<>>
    THEN [queue |-> q, final_queue |-> fq, current_card |-> cur,
          ended |-> TRUE, refilled |-> refilled]
    ELSE IF cs[Head(q)].completed
         THEN next_card_no_refill(cs, Tail(q), fq, Head(q), refilled)
         ELSE [queue |-> Tail(q), final_queue |-> fq, current_card |-> Head(q),
               ended |-> FALSE, refilled |-> refilled]

\* next_card from the queue test on: the refill, the pop, the skip of a
\* completed card by the recursive call, or end_session.
RECURSIVE next_card(_, _, _, _, _)
next_card(cs, q, fq, cur, refilled) ==
    IF q = <<>> /\ fq = <<>>
    THEN [queue |-> q, final_queue |-> fq, current_card |-> cur,
          ended |-> TRUE, refilled |-> refilled]
    ELSE LET q1 == IF q = <<>> THEN fq ELSE q
             fq1 == IF q = <<>> THEN <<>> ELSE fq
             r1 == refilled \/ q = <<>>
             c == Head(q1)
         IN  IF cs[c].completed
             THEN next_card(cs, Tail(q1), fq1, c, r1)
             ELSE [queue |-> Tail(q1), final_queue |-> fq1, current_card |-> c,
                   ended |-> FALSE, refilled |-> r1]

\* ------------------------------------------------------------- end frame
\* sum(1 for c in self.cards if c["incorrect_count"] == k)
count_cards(cs, k) ==
    Cardinality({i \in 1..Len(cs) : cs[i].incorrect_count = k})

\* raw_score is a double.  Where the exact quotient lies halfway between two
\* integers, the double may lie beside it: -1 for below, 1 for above, 0 for
\* the exact value.  For word lists of fewer than 16 cards the only such case
\* is (4 + 3 / 5) / 8 * 100 = 57.49999999999999; for longer lists with one
\* missed card at most it is (159 + 1 / 5) / 160 * 100 = 99.49999999999999.
float_error(correct_first_time, wrong_once, total_words) ==
    IF <<correct_first_time, wrong_once, total_words>> \in {<<4, 3, 8>>, <<159, 1, 160>>}
    THEN -1
    ELSE 0

\* round(x) of Python 3 for x = num / den >= 0 computed with error err: the
\* nearest integer, the even one of the two when x is exactly halfway.
round(num, den, err) ==
    LET q == num \div den
        r == num % den
    IN  IF 2 * r + err > den THEN q + 1
        ELSE IF 2 * r + err < den THEN q
        ELSE IF q % 2 = 0 THEN q ELSE q + 1

\* The score of the docstring of end_session: a third for a word wrong once.
final_score_thirds(cs) ==
    LET correct_first_time == count_cards(cs, 0)
        wrong_once == count_cards(cs, 1)
        total_words == Len(cs)
    IN  IF total_words > 0
        THEN round((3 * correct_first_time + wrong_once) * 100, 3 * total_words, 0)
        ELSE 0

\* score of end_session: (correct_first_time + wrong_once / 5) / total_words
\* * 100 is (5 * correct_first_time + wrong_once) * 20 / total_words.
final_score(cs) ==
    LET correct_first_time == count_cards(cs, 0)
        wrong_once == count_cards(cs, 1)
        total_words == Len(cs)
    IN  IF total_words > 0
        THEN round((5 * correct_first_time + wrong_once) * 20, total_words,
                   float_error(correct_first_time, wrong_once, total_words))
        ELSE round(0, 1, 0)

\* The list random.choice draws from (apostrophes and dash in ASCII).
jokes ==
    {"Nice! 69 is the best!", "Sixty-nine, a fine time!", "Keep calm - it's 69!",
     "69: You're on fire!", "Rock that 69 score!"}

\* The message of the if-chain of end_session alone.
tier_message(s) ==
    IF s < 10 THEN "Nevermind bro, maybe its better to do something else"
    ELSE IF s < 30
    THEN "Sit tight, this is a heavy sesh. You better dont quit on me now"
    ELSE IF s < 50 THEN "Keep practicing, you'll get better!"
    ELSE IF s < 80 THEN "Good job, keep it up!"
    ELSE IF s < 100 THEN "Excellent work, you're a language master!"
    ELSE "Clean sheet bro, you're a language god!"

\* end_session without the special case of 69.
end_messages_no_joke(s) == {tier_message(s)}

\* end_session with the messages of the two middle ranges exchanged.
end_messages_swapped(s) ==
    IF s = 69 THEN jokes
    ELSE IF 30 <= s /\ s < 50 THEN {"Good job, keep it up!"}
    ELSE IF 50 <= s /\ s < 80 THEN {"Keep practicing, you'll get better!"}
    ELSE {tier_message(s)}

\* The messages end_session can choose for score s.
end_messages(s) == IF s = 69 THEN jokes ELSE {tier_message(s)}

\* What the end frame shows when a call of next_card ends the session.
EndFrame(ended, cs) ==
    IF ended
    THEN /\ score' = final_score(cs)
         /\ message' \in end_messages(final_score(cs))
         /\ UNCHANGED <<new_file, call>>
    ELSE UNCHANGED endVars

\* The state a call of next_card leaves, given the cards it finds.
\* With the session frame destroyed, feedback_label.config raises TclError
\* before the queue is touched.
RunNextCard(cs) ==
    IF screen # "session"
    THEN /\ error' = "TclError"
         /\ cards' = cs
         /\ UNCHANGED <<screen, queue, final_queue, current_card, awaiting,
                        final_pass, shown_final, shown, endVars>>
    ELSE LET n == next_card(cs, queue, final_queue, current_card, FALSE)
             fp == final_pass \/ n.refilled
         IN  /\ error' = ""
             /\ cards' = cs
             /\ queue' = n.queue
             /\ final_queue' = n.final_queue
             /\ current_card' = n.current_card
             /\ screen' = IF n.ended THEN "end" ELSE "session"
             /\ EndFrame(n.ended, cs)
             /\ awaiting' = ~n.ended
             /\ final_pass' = fp
             /\ shown_final' =
                    IF ~n.ended /\ fp
                    THEN [shown_final EXCEPT ![n.current_card] = @ + 1]
                    ELSE shown_final
             /\ shown' =
                    IF ~n.ended
                    THEN [shown EXCEPT ![n.current_card] = @ + 1]
                    ELSE shown

\* The longest word list of any specification of this module.
MaxDf ==
    Max(Max(Max(MaxRows, LongRows), Max(DicteeRows, EndZeros + EndCards)),
        ManyCards)

\* The values the attributes of LanguageLearnerApp take.
TypeOK ==
    /\ screen \in {"file_selection", "settings", "session", "end"}
    /\ df \in -1..MaxDf
    /\ next_button \in {"disabled", "normal"}
    /\ learning_method_var \in {"in_gedachten", "dictee"}
    /\ mismatch_var \in 0..Max(MaxMismatch, DicteeMismatch)
    /\ mismatch_spinbox \in {"disabled", "normal"}
    /\ \A i \in 1..Len(cards) :
          /\ cards[i].row \in 1..MaxDf
          /\ cards[i].completed \in BOOLEAN
          /\ cards[i].final_scheduled \in BOOLEAN
          /\ cards[i].delayed_scheduled = FALSE
          /\ cards[i].incorrect_count \in 0..Max(MaxIncorrect, EndMisses)
    /\ \A i \in 1..Len(queue) : queue[i] \in 1..Len(cards)
    /\ \A i \in 1..Len(final_queue) : final_queue[i] \in 1..Len(cards)
    /\ current_card \in 0..Len(cards)
    /\ total_unique = Len(cards)
    /\ correct_count \in Nat
    /\ incorrect_overall \in Nat
    /\ pending \in 0..MaxPending
    /\ score \in -1..100
    /\ state \in {"normal", "fullscreen"}
    /\ Len(shown) = Len(cards)
    /\ \A i \in 1..Len(shown) : shown[i] \in Nat
    /\ (screen = "end") = (score >= 0)
    /\ IF screen = "end" THEN message \in end_messages(score) ELSE message = ""
    /\ \A i \in 1..Len(new_file) :
          \E row \in 1..MaxDf :
             new_file[i] = [source |-> Source(row), target |-> Target(row)]

\* ------------------------------------------------------------------ Init
\* The program after LanguageLearnerApp() is constructed.
Start ==
    /\ screen = "file_selection"
    /\ df = -1
    /\ next_button = "disabled"
    /\ learning_method_var = "in_gedachten"
    /\ mismatch_var = 0
    /\ mismatch_spinbox = "disabled"
    /\ cards = <<>>
    /\ queue = <<>>
    /\ final_queue = <<>>
    /\ current_card = 0
    /\ total_unique = 0
    /\ correct_count = 0
    /\ incorrect_overall = 0
    /\ pending = 0
    /\ error = ""
    /\ awaiting = FALSE
    /\ requeue = NoRequeue
    /\ final_pass = FALSE
    /\ shown_final = <<>>
    /\ shown = <<>>
    /\ score = -1
    /\ message = ""
    /\ new_file = <<>>

Init == Start /\ call = NoCall /\ state = "normal"

\* --------------------------------------------------------------- actions
\* The file dialog's outcomes: cancelled, an extension that is not
\* supported, a file pandas cannot read, or a table of some number of rows.
Files ==
    {[kind |-> k, rows |-> 0] : k \in {"cancel", "unsupported", "unreadable"}}
    \cup {[kind |-> "table", rows |-> n] : n \in 0..MaxRows}

load_file(file) ==
    /\ screen = "file_selection"
    /\ IF file.kind = "cancel"
       THEN /\ error' = ""
            /\ UNCHANGED <<df, next_button>>
       ELSE IF file.kind = "unsupported"
       THEN /\ error' = "Unsupported file type"
            /\ UNCHANGED <<df, next_button>>
       ELSE IF file.kind = "unreadable"
       THEN /\ error' = "Failed to load file"
            /\ UNCHANGED <<df, next_button>>
       ELSE IF file.rows = 0
       THEN /\ df' = 0
            /\ error' = "Loaded file is empty"
            /\ UNCHANGED next_button
       ELSE /\ df' = file.rows
            /\ next_button' = "normal"
            /\ error' = ""
    /\ UNCHANGED <<screen, settingsVars, sessionVars, pending, historyVars, endVars,
                   state>>

\* go_to_settings without the test of self.df.
go_to_settings_unchecked ==
    /\ screen = "file_selection"
    /\ next_button = "normal"
    /\ screen' = "settings"
    /\ mismatch_spinbox' = "disabled"
    /\ error' = ""
    /\ UNCHANGED <<df, next_button, learning_method_var, mismatch_var,
                   sessionVars, pending, historyVars, endVars,
                   state>>

go_to_settings ==
    /\ screen = "file_selection"
    /\ next_button = "normal"
    /\ IF df = -1 \/ df = 0
       THEN /\ error' = "No valid file loaded"
            /\ UNCHANGED <<screen, mismatch_spinbox>>
       ELSE /\ screen' = "settings"
            /\ mismatch_spinbox' = "disabled"
            /\ error' = ""
    /\ UNCHANGED <<df, next_button, learning_method_var, mismatch_var,
                   sessionVars, pending, historyVars, endVars,
                   state>>

\* A radio button of the settings frame, with its command update_mismatch_state.
select_method(m) ==
    /\ screen = "settings"
    /\ learning_method_var' = m
    /\ mismatch_spinbox' = IF m = "dictee" THEN "normal" ELSE "disabled"
    /\ error' = ""
    /\ UNCHANGED <<screen, df, next_button, mismatch_var, sessionVars, pending,
                   historyVars, endVars,
                   state>>

\* The mismatch spinbox of the settings frame.
set_mismatch(k) ==
    /\ screen = "settings"
    /\ mismatch_spinbox = "normal"
    /\ mismatch_var' = k
    /\ error' = ""
    /\ UNCHANGED <<screen, df, next_button, learning_method_var,
                   mismatch_spinbox, sessionVars, pending, historyVars, endVars,
                   state>>

start_session(p) ==
    /\ screen = "settings"
    /\ p \in Shuffles(df)
    /\ LET cs == [i \in 1..df |-> NewCard(p[i])]
           q == [i \in 1..df |-> i]
           n == next_card(cs, q, <<>>, current_card, FALSE)
       IN  /\ cards' = cs
           /\ total_unique' = df
           /\ correct_count' = 0
           /\ incorrect_overall' = 0
           /\ queue' = n.queue
           /\ final_queue' = n.final_queue
           /\ current_card' = n.current_card
           /\ screen' = IF n.ended THEN "end" ELSE "session"
           /\ EndFrame(n.ended, cs)
           /\ awaiting' = ~n.ended
           /\ final_pass' = n.refilled
           /\ shown_final' = [i \in 1..df |-> 0]
           /\ shown' = [i \in 1..df |->
                           IF ~n.ended /\ i = n.current_card THEN 1 ELSE 0]
    /\ requeue' = NoRequeue
    /\ error' = ""
    /\ UNCHANGED <<df, next_button, settingsVars, pending>>
    /\ state' = "normal"

mark_correct ==
    /\ screen = "session"
    /\ learning_method_var = "in_gedachten"
    /\ LET first == current_card # 0 /\ ~cards[current_card].completed
           cs == IF first
                 THEN [cards EXCEPT ![current_card].completed = TRUE]
                 ELSE cards
       IN  /\ correct_count' = IF first THEN correct_count + 1 ELSE correct_count
           /\ RunNextCard(cs)
    /\ requeue' = NoRequeue
    /\ UNCHANGED <<state, df, next_button, settingsVars, total_unique,
                   incorrect_overall, pending>>

mark_incorrect(offset) ==
    /\ screen = "session"
    /\ learning_method_var = "in_gedachten"
    /\ IF current_card # 0
       THEN /\ cards[current_card].incorrect_count < MaxIncorrect
            /\ LET cs == [cards EXCEPT ![current_card].incorrect_count = @ + 1]
                   s == schedule_incorrect_card(cs, queue, final_queue,
                                                current_card, offset)
                   n == next_card(s.cards, s.queue, s.final_queue,
                                  current_card, FALSE)
                   fp == final_pass \/ n.refilled
               IN  /\ incorrect_overall' = incorrect_overall + 1
                   /\ requeue' = s.requeue
                   /\ cards' = s.cards
                   /\ queue' = n.queue
                   /\ final_queue' = n.final_queue
                   /\ current_card' = n.current_card
                   /\ screen' = IF n.ended THEN "end" ELSE "session"
                   /\ EndFrame(n.ended, s.cards)
                   /\ awaiting' = ~n.ended
                   /\ final_pass' = fp
                   /\ shown_final' =
                          IF ~n.ended /\ fp
                          THEN [shown_final EXCEPT ![n.current_card] = @ + 1]
                          ELSE shown_final
                   /\ shown' =
                          IF ~n.ended
                          THEN [shown EXCEPT ![n.current_card] = @ + 1]
                          ELSE shown
                   /\ error' = ""
       ELSE /\ RunNextCard(cards)
            /\ requeue' = NoRequeue
            /\ UNCHANGED incorrect_overall
    /\ UNCHANGED <<state, df, next_button, settingsVars, total_unique, correct_count,
                   pending>>

check_dictee_answer(typed) ==
    /\ screen = "session"
    /\ learning_method_var = "dictee"
    /\ IF current_card = 0
       THEN /\ error' = ""
            /\ requeue' = NoRequeue
            /\ UNCHANGED <<sessionVars, pending, awaiting>>
       ELSE LET typed_answer == strip(typed)
                correct_answer == Target(cards[current_card].row)
                mismatch == calculate_mismatch(typed_answer, correct_answer)
            IN  /\ pending < MaxPending
                /\ IF mismatch <= mismatch_var
                   THEN /\ cards' = [cards EXCEPT ![current_card].completed = TRUE]
                        /\ correct_count' = correct_count + 1
                        /\ requeue' = NoRequeue
                        /\ UNCHANGED <<queue, final_queue, incorrect_overall>>
                   ELSE /\ cards[current_card].incorrect_count < MaxIncorrect
                        /\ \E offset \in MinOffset..MaxOffset :
                           LET cs == [cards EXCEPT
                                        ![current_card].incorrect_count = @ + 1]
                               s == schedule_incorrect_card(cs, queue, final_queue,
                                                            current_card, offset)
                           IN  /\ cards' = s.cards
                               /\ queue' = s.queue
                               /\ final_queue' = s.final_queue
                               /\ requeue' = s.requeue
                        /\ incorrect_overall' = incorrect_overall + 1
                        /\ UNCHANGED correct_count
                /\ pending' = pending + 1
                /\ awaiting' = FALSE
                /\ error' = ""
                /\ UNCHANGED <<current_card, total_unique>>
    /\ UNCHANGED <<screen, df, next_button, settingsVars, final_pass, shown_final,
                   shown, endVars,
                   state>>

\* A call registered by self.after(1200, self.next_card) comes due.
deferred_next_card ==
    /\ pending > 0
    /\ pending' = pending - 1
    /\ RunNextCard(cards)
    /\ requeue' = NoRequeue
    /\ UNCHANGED <<state, df, next_button, settingsVars, total_unique, correct_count,
                   incorrect_overall>>

restart ==
    /\ screen = "end"
    /\ screen' = "file_selection"
    /\ next_button' = "disabled"
    /\ error' = ""
    /\ score' = -1
    /\ message' = ""
    /\ UNCHANGED <<df, settingsVars, sessionVars, pending, historyVars, new_file,
                   call, state>>

\* create_new_list keeping the cards answered incorrectly more than n times.
RECURSIVE filtered_cards_above(_, _)
filtered_cards_above(cs, n) ==
    IF cs = <<>>
    THEN <<>>
    ELSE (IF Head(cs).incorrect_count > n THEN <<Head(cs)>> ELSE <<>>)
         \o filtered_cards_above(Tail(cs), n)

\* The cards create_new_list keeps: those answered incorrectly n times or more.
RECURSIVE filtered_cards(_, _)
filtered_cards(cs, n) ==
    IF cs = <<>>
    THEN <<>>
    ELSE (IF Head(cs).incorrect_count >= n THEN <<Head(cs)>> ELSE <<>>)
         \o filtered_cards(Tail(cs), n)

\* The rows of the new list, one per card kept.
new_rows(fc) ==
    [j \in 1..Len(fc) |-> [source |-> Source(fc[j].row), target |-> Target(fc[j].row)]]

\* create_new_list without the test for an empty selection.
create_new_list_unfiltered(n) ==
    /\ screen = "end"
    /\ \/ /\ new_file' = new_rows(filtered_cards(cards, n))
          /\ error' = "Created new list"
       \/ /\ error' = "Could not create file"
          /\ UNCHANGED new_file
    /\ UNCHANGED <<screen, df, next_button, settingsVars, sessionVars, pending,
                   historyVars, score, message, call, state>>

\* The Create New List button with n in the spinbox beside it.  to_excel
\* writes the file or raises.
create_new_list(n) ==
    /\ screen = "end"
    /\ LET fc == filtered_cards(cards, n)
       IN  IF fc = <<>>
           THEN /\ error' = "No words found"
                /\ UNCHANGED new_file
           ELSE \/ /\ new_file' = new_rows(fc)
                   /\ error' = "Created new list"
                \/ /\ error' = "Could not create file"
                   /\ UNCHANGED new_file
    /\ UNCHANGED <<screen, df, next_button, settingsVars, sessionVars, pending,
                   historyVars, score, message, call, state>>

\* toggle_fullscreen also drawing the next card.
toggle_fullscreen_advancing ==
    /\ screen = "session"
    /\ state' = IF state = "normal" THEN "fullscreen" ELSE "normal"
    /\ RunNextCard(cards)
    /\ requeue' = NoRequeue
    /\ UNCHANGED <<df, next_button, settingsVars, total_unique, correct_count,
                   incorrect_overall, pending>>

\* The Toggle Fullscreen button of the header of the session frame: the
\* content container is rebuilt in the other layout.
toggle_fullscreen ==
    /\ screen = "session"
    /\ state' = IF state = "normal" THEN "fullscreen" ELSE "normal"
    /\ error' = ""
    /\ UNCHANGED <<screen, df, next_button, settingsVars, sessionVars, pending,
                   historyVars, endVars>>

\* One session, from the start of the program to the end frame.
Next ==
    \/ \E file \in Files : load_file(file)
    \/ go_to_settings
    \/ \E m \in {"in_gedachten", "dictee"} : select_method(m)
    \/ \E k \in 0..MaxMismatch : set_mismatch(k)
    \/ \E p \in Shuffles(df) : start_session(p)
    \/ mark_correct
    \/ \E offset \in MinOffset..MaxOffset : mark_incorrect(offset)
    \/ \E typed \in TypedAnswers : check_dictee_answer(typed)
    \/ deferred_next_card

Spec == Init /\ [][Next]_vars

\* One session with the Toggle Fullscreen button as well.
ToggleNext == Next \/ toggle_fullscreen

ToggleSpec == Init /\ [][ToggleNext]_vars

\* The Tk main loop runs every registered after() call once its delay is over.
FairSpec == Spec /\ WF_vars(deferred_next_card)

\* ------------------------------------------------------------ long session
\* A session over a word list of LongRows rows, from the state start_session
\* leaves when random.shuffle keeps the file's order, in either learning
\* method, with at most MaxMisses incorrect answers.
LongInit ==
    /\ screen = "session"
    /\ df = LongRows
    /\ next_button = "normal"
    /\ learning_method_var \in {"in_gedachten", "dictee"}
    /\ mismatch_var = 0
    /\ mismatch_spinbox = IF learning_method_var = "dictee" THEN "normal" ELSE "disabled"
    /\ cards = [i \in 1..LongRows |-> NewCard(i)]
    /\ queue = [i \in 1..(LongRows - 1) |-> i + 1]
    /\ final_queue = <<>>
    /\ current_card = 1
    /\ total_unique = LongRows
    /\ correct_count = 0
    /\ incorrect_overall = 0
    /\ pending = 0
    /\ error = ""
    /\ awaiting = TRUE
    /\ requeue = NoRequeue
    /\ final_pass = FALSE
    /\ shown_final = [i \in 1..LongRows |-> 0]
    /\ shown = [i \in 1..LongRows |-> IF i = 1 THEN 1 ELSE 0]
    /\ score = -1
    /\ message = ""
    /\ new_file = <<>>
    /\ call = NoCall
    /\ state = "normal"

LongNext ==
    \/ mark_correct
    \/ \E offset \in MinOffset..MaxOffset :
           mark_incorrect(offset) /\ incorrect_overall' <= MaxMisses
    \/ \E typed \in DicteeAnswers :
           check_dictee_answer(typed) /\ incorrect_overall' <= MaxMisses
    \/ deferred_next_card

LongSpec == LongInit /\ [][LongNext]_vars

\* The long session in the self-paced method, with at most RequeueMisses
\* incorrect answers.
RequeueInit == LongInit /\ learning_method_var = "in_gedachten"

RequeueNext ==
    \/ mark_correct
    \/ \E offset \in MinOffset..MaxOffset :
           mark_incorrect(offset) /\ incorrect_overall' <= RequeueMisses

RequeueSpec == RequeueInit /\ [][RequeueNext]_vars

\* --------------------------------------------------------- finishing session
\* The incorrect counts of the cards of a finishing session, in the order of
\* self.cards: up to EndCards cards of any counts.
ExportCounts == UNION {[1..n -> 0..EndMisses] : n \in 1..EndCards}

\* The same, or EndZeros never missed cards before them.
EndCounts ==
    ExportCounts
    \cup {[i \in 1..(EndZeros + Len(ks)) |->
              IF i <= EndZeros THEN 0 ELSE ks[i - EndZeros]] : ks \in ExportCounts}

\* The card answered last when every requeued card goes to the end of the
\* queue (an offset of 6 with at most 6 cards waiting): the cards come round
\* in the order of self.cards, a card of k misses leaves in round k + 1, so
\* the last one is the last card of the most misses.
LastCard(ks) ==
    LET most == CHOOSE k \in 0..EndMisses :
                    /\ \E i \in 1..Len(ks) : ks[i] = k
                    /\ \A i \in 1..Len(ks) : ks[i] <= k
    IN  CHOOSE i \in 1..Len(ks) :
            /\ ks[i] = most
            /\ \A j \in 1..Len(ks) : ks[j] = most => j <= i

\* The missed cards in the order of their first miss, the order of self.cards.
RECURSIVE MissedFrom(_, _)
MissedFrom(ks, i) ==
    IF i > Len(ks)
    THEN <<>>
    ELSE (IF ks[i] >= 1 THEN <<i>> ELSE <<>>) \o MissedFrom(ks, i + 1)

RECURSIVE SumCounts(_)
SumCounts(ks) == IF ks = <<>> THEN 0 ELSE Head(ks) + SumCounts(Tail(ks))

\* The callback before the last presentation was mark_incorrect on the last
\* card itself, requeued into the empty queue, when no other card was left
\* in its last two rounds; else it was mark_correct or start_session.
LastRequeue(ks) ==
    LET c == LastCard(ks)
    IN  IF /\ ks[c] >= 1
           /\ \A j \in 1..Len(ks) :
                  j # c => (ks[j] < ks[c] /\ (j > c => ks[j] < ks[c] - 1))
        THEN [card |-> c, short |-> TRUE, len |-> 0, insert_index |-> 0]
        ELSE NoRequeue

\* A self-paced session whose last card awaits its answer: every other card
\* is completed, the main queue is empty and the final queue holds the missed
\* cards.
EndState(ks) ==
       /\ screen = "session"
       /\ df = Len(ks)
       /\ next_button = "normal"
       /\ learning_method_var = "in_gedachten"
       /\ mismatch_var = 0
       /\ mismatch_spinbox = "disabled"
       /\ cards = [i \in 1..Len(ks) |->
                     [row |-> i, delayed_scheduled |-> FALSE,
                      final_scheduled |-> ks[i] >= 1,
                      completed |-> i # LastCard(ks),
                      incorrect_count |-> ks[i]]]
       /\ queue = <<>>
       /\ final_queue = MissedFrom(ks, 1)
       /\ current_card = LastCard(ks)
       /\ total_unique = Len(ks)
       /\ correct_count = Len(ks) - 1
       /\ incorrect_overall = SumCounts(ks)
       /\ pending = 0
       /\ error = ""
       /\ awaiting = TRUE
       /\ requeue = LastRequeue(ks)
       /\ final_pass = FALSE
       /\ shown_final = [i \in 1..Len(ks) |-> 0]
       /\ shown = [i \in 1..Len(ks) |-> ks[i] + 1]
       /\ score = -1
       /\ message = ""
       /\ new_file = <<>>
       /\ call = NoCall
       /\ state = "normal"

EndInit == \E ks \in EndCounts : EndState(ks)

\* The last answer, which ends the session.
EndNext == mark_correct

EndSpec == EndInit /\ [][EndNext]_vars

\* -------------------------------------------------------------- long lists
\* A self-paced session of n cards whose last card awaits its answer, every
\* other card answered correctly at once.  With m = 1 the last card was
\* missed once before: mark_incorrect requeued it into the empty queue and
\* next_card presented it again.
ManyState(n, m) ==
    /\ screen = "session"
    /\ df = n
    /\ next_button = "normal"
    /\ learning_method_var = "in_gedachten"
    /\ mismatch_var = 0
    /\ mismatch_spinbox = "disabled"
    /\ cards = [i \in 1..n |->
                  [row |-> i, delayed_scheduled |-> FALSE,
                   final_scheduled |-> (i = n /\ m = 1),
                   completed |-> i # n,
                   incorrect_count |-> IF i = n THEN m ELSE 0]]
    /\ queue = <<>>
    /\ final_queue = IF m = 1 THEN <<n>> ELSE <<>>
    /\ current_card = n
    /\ total_unique = n
    /\ correct_count = n - 1
    /\ incorrect_overall = m
    /\ pending = 0
    /\ error = ""
    /\ awaiting = TRUE
    /\ requeue = IF m = 1
                 THEN [card |-> n, short |-> TRUE, len |-> 0, insert_index |-> 0]
                 ELSE NoRequeue
    /\ final_pass = FALSE
    /\ shown_final = [i \in 1..n |-> 0]
    /\ shown = [i \in 1..n |-> IF i = n THEN m + 1 ELSE 1]
    /\ score = -1
    /\ message = ""
    /\ new_file = <<>>
    /\ call = NoCall
    /\ state = "normal"

\* Such a session of up to ManyCards cards.
ManyInit == \E n \in 1..ManyCards, m \in {0, 1} : ManyState(n, m)

ManyNext == mark_correct

ManySpec == ManyInit /\ [][ManyNext]_vars

\* ------------------------------------------------------------------ export
\* The values taken in the spinbox of the end frame: one above every count
\* selects the same cards, none, as every greater one.
NewListChoices == NewListFrom..Min(NewListTo, EndMisses + 1)

ExportInit == \E ks \in ExportCounts : EndState(ks)

\* The last answer, then the Create New List button.
ExportNext ==
    \/ mark_correct
    \/ \E n \in NewListChoices : create_new_list(n)

ExportSpec == ExportInit /\ [][ExportNext]_vars

\* ------------------------------------------------- calculate_mismatch alone
\* calculate_mismatch is called with two words and has not returned.
MismatchInit ==
    /\ Start
    /\ \E a, b \in Words : call = [word1 |-> a, word2 |-> b, result |-> -1]
    /\ state = "normal"

\* The call returns.
mismatch_returns ==
    /\ call.result = -1
    /\ call' = [call EXCEPT !.result = calculate_mismatch(call.word1, call.word2)]
    /\ UNCHANGED appVars

MismatchNext == mismatch_returns

MismatchSpec == MismatchInit /\ [][MismatchNext]_vars

\* ------------------------------------------------------------ typed session
\* A typed session over a word list of DicteeRows rows with the threshold 0 or
\* DicteeMismatch, from the state start_session leaves when random.shuffle
\* keeps the file's order, with at most MaxMisses incorrect answers.
DicteeInit ==
    /\ screen = "session"
    /\ df = DicteeRows
    /\ next_button = "normal"
    /\ learning_method_var = "dictee"
    /\ mismatch_var \in {0, DicteeMismatch}
    /\ mismatch_spinbox = "normal"
    /\ cards = [i \in 1..DicteeRows |-> NewCard(i)]
    /\ queue = [i \in 1..(DicteeRows - 1) |-> i + 1]
    /\ final_queue = <<>>
    /\ current_card = 1
    /\ total_unique = DicteeRows
    /\ correct_count = 0
    /\ incorrect_overall = 0
    /\ pending = 0
    /\ error = ""
    /\ awaiting = TRUE
    /\ requeue = NoRequeue
    /\ final_pass = FALSE
    /\ shown_final = [i \in 1..DicteeRows |-> 0]
    /\ shown = [i \in 1..DicteeRows |-> IF i = 1 THEN 1 ELSE 0]
    /\ score = -1
    /\ message = ""
    /\ new_file = <<>>
    /\ call = NoCall
    /\ state = "normal"

DicteeNext ==
    \/ \E typed \in DicteeAnswers :
           check_dictee_answer(typed) /\ incorrect_overall' <= MaxMisses
    \/ deferred_next_card

DicteeSpec == DicteeInit /\ [][DicteeNext]_vars

\* Session after session: the end frame's "Go to Home Screen" button as well.
NextRestart ==
    \/ Next
    \/ \E n \in NewListFrom..NewListTo : create_new_list(n)
    \/ toggle_fullscreen
    \/ restart

SpecRestart == Init /\ [][NextRestart]_vars

\* ---------------------------------------------------------------- claims
CardIds == 1..Len(cards)

Count(q, c) == Cardinality({i \in 1..Len(q) : q[i] = c})

AllCompleted == \A c \in CardIds : cards[c].completed

NewlyCompleted == {c \in CardIds : cards'[c].completed /\ ~cards[c].completed}

\* A step of a running session that resolves the current card.
Resolution ==
    \/ correct_count' = correct_count + 1
    \/ incorrect_overall' = incorrect_overall + 1

\* C1: during a session correct_count grows by exactly one in a step in which
\* a card becomes completed, and by nothing in every other step.
C1_CreditOnce ==
    [][screen = "session" =>
          correct_count' = correct_count + Cardinality(NewlyCompleted)]_vars

\* C2: once every card of the running session has been answered correctly,
\* the session reaches the end frame.
C2_Termination == (screen = "session" /\ AllCompleted) ~> (screen = "end")

C2_Witness ==
    /\ screen = "session"
    /\ AllCompleted
    /\ pending > 0
    /\ \E c \in CardIds : cards[c].incorrect_count > 0

\* C3: a card that next_card presents and that awaits its answer is not
\* completed.
C3_PresentedNotCompleted ==
    (screen = "session" /\ awaiting) =>
        (current_card # 0 /\ ~cards[current_card].completed)

\* A completed card came back from the final queue and was passed over, and
\* the draw went on to present another card.
C3_Witness ==
    /\ screen = "session"
    /\ awaiting
    /\ final_pass
    /\ \E c \in CardIds :
          /\ cards[c].completed
          /\ cards[c].final_scheduled
          /\ shown_final[c] = 0
          /\ Count(queue, c) = 0

\* C4: final_queue never holds a card twice, a card enters it only in the
\* step that sets its final_scheduled flag, and the flag is never cleared
\* while the session runs.
C4_FinalQueueOnce ==
    /\ [](\A c \in CardIds : Count(final_queue, c) <= 1)
    /\ [][screen = "session" =>
            \A c \in CardIds :
               /\ cards[c].final_scheduled => cards'[c].final_scheduled
               /\ Count(final_queue', c) > Count(final_queue, c) =>
                     ~cards[c].final_scheduled /\ cards'[c].final_scheduled]_vars

C4_Witness ==
    \E c \in CardIds :
       /\ cards[c].incorrect_count >= 2
       /\ Count(final_queue, c) = 1

\* C5: a requeue inserts the card at an index between min(3, len) and
\* min(6, len), len being the queue's length before the insertion, and at the
\* end of the queue when the queue is shorter than the offset drawn.  In typed
\* mode, where the callback ends before the next draw, the card is at that
\* index of the queue.
C5_RequeueOffsetBound ==
    requeue # NoRequeue =>
        /\ Min(MinOffset, requeue.len) <= requeue.insert_index
        /\ requeue.insert_index <= Min(MaxOffset, requeue.len)
        /\ requeue.short => requeue.insert_index = requeue.len
        /\ learning_method_var = "dictee" =>
               /\ Len(queue) = requeue.len + 1
               /\ queue[requeue.insert_index + 1] = requeue.card

\* A requeue into a queue longer than every offset, not at its end.
C5_Witness ==
    /\ requeue # NoRequeue
    /\ requeue.len > MaxOffset
    /\ requeue.insert_index = MaxOffset
    /\ learning_method_var = "dictee"

\* C6: when the session has ended, every card that was answered incorrectly
\* has been presented exactly once since the final queue was loaded.
C6_MissedShownOnceMore ==
    screen = "end" =>
        \A c \in CardIds : cards[c].incorrect_count >= 1 => shown_final[c] = 1

\* C7: while the presented card awaits its answer, a step that is not its
\* resolution leaves both queues and the current card alone and does not end
\* the session.
C7_NoDrawWhileAwaiting ==
    [][(screen = "session" /\ awaiting) =>
          (Resolution \/ UNCHANGED <<queue, final_queue, current_card, screen>>)]_vars

\* C8: once the current card is resolved, no step before the next draw
\* changes a tally, lengthens the main queue or registers another deferred
\* advance.
C8_ResolveOncePerDraw ==
    [][(screen = "session" /\ ~awaiting) =>
          /\ correct_count' = correct_count
          /\ incorrect_overall' = incorrect_overall
          /\ Len(queue') <= Len(queue)
          /\ pending' <= pending]_vars

\* C9: no deferred advance is pending once end_session has run.
C9_NoAdvanceAfterEnd == screen = "end" => pending = 0

\* C10: a next_card call on the finished session reports a session-finished
\* error and leaves the session's state alone.
C10_FinishedRejects ==
    [][(screen = "end" /\ pending' < pending) =>
          (error' = "SessionFinishedError" /\ UNCHANGED sessionVars)]_vars

\* q is what is left of p once some of its first elements are taken off.
IsSuffix(q, p) ==
    /\ Len(q) <= Len(p)
    /\ q = SubSeq(p, Len(p) - Len(q) + 1, Len(p))

\* C11: the end frame is reached only with the main queue and the final queue
\* both empty; the step in which the main queue runs out while the final queue
\* holds cards moves the final queue into the main queue, leaves final_queue
\* empty and goes on drawing from what was moved: the session ends in that
\* step only if every moved card is skipped as completed.
C11_EndOnlyWhenBothEmpty ==
    /\ [](screen = "end" => (queue = <<>> /\ final_queue = <<>>))
    /\ [][(screen = "session" /\ ~final_pass /\ final_pass') =>
            /\ final_queue # <<>>
            /\ final_queue' = <<>>
            /\ IsSuffix(queue', final_queue)
            /\ current_card' = final_queue[Len(final_queue) - Len(queue')]
            /\ IF \A i \in 1..Len(final_queue) : cards'[final_queue[i]].completed
               THEN screen' = "end" /\ queue' = <<>>
               ELSE screen' = "session" /\ ~cards'[current_card'].completed]_vars

\* The final queue was moved into the main queue and a card of it is presented.
C11_Witness ==
    /\ screen = "session"
    /\ final_pass
    /\ awaiting
    /\ cards[current_card].final_scheduled
    /\ shown_final[current_card] = 1

\* The cards answered incorrectly exactly k times.
Missed(k) == {c \in CardIds : cards[c].incorrect_count = k}

\* total_words times the exact percentage
\* (correct_first_time + wrong_once / 5) / total_words * 100.
ExactPercent == (5 * Cardinality(Missed(0)) + Cardinality(Missed(1))) * 20

C13_MessageByRange ==
    /\ Cardinality(jokes) = 5
    /\ screen = "end" =>
          /\ score < 10 =>
                message = "Nevermind bro, maybe its better to do something else"
          /\ (10 <= score /\ score <= 29) =>
                message = "Sit tight, this is a heavy sesh. You better dont quit on me now"
          /\ (30 <= score /\ score <= 49) =>
                message = "Keep practicing, you'll get better!"
          /\ (50 <= score /\ score <= 79 /\ score # 69) =>
                message = "Good job, keep it up!"
          /\ (80 <= score /\ score <= 99) =>
                message = "Excellent work, you're a language master!"
          /\ score = 100 => message = "Clean sheet bro, you're a language god!"
          /\ score = 69 =>
                /\ message \in {"Nice! 69 is the best!", "Sixty-nine, a fine time!",
                                 "Keep calm - it's 69!", "69: You're on fire!",
                                 "Rock that 69 score!"}
                /\ message # "Good job, keep it up!"

C13_Witness ==
    /\ screen = "end"
    /\ score = 69
    /\ message = "Rock that 69 score!"

\* C14 as claimed: a session that ends with the score 64 shows
\* "Keep practicing, you'll get better!".
C14_Claimed ==
    (screen = "end" /\ score = 64) => message = "Keep practicing, you'll get better!"

\* C14: a session that ends with the score 64 shows "Good job, keep it up!",
\* the message of the scores from 50 up to 80 ("Keep practicing, you'll get
\* better!" is the message of the scores from 30 up to 50).
C14_Message64 ==
    (screen = "end" /\ score = 64) =>
        /\ message = "Good job, keep it up!"
        /\ message # "Keep practicing, you'll get better!"

C14_Witness ==
    /\ screen = "end"
    /\ score = 64
    /\ Cardinality(Missed(0)) = 3
    /\ Cardinality(Missed(1)) = 1
    /\ message = "Good job, keep it up!"

\* Two characters that are the same letter in either case.
SameLetter(x, y) == x = y \/ {x, y} = {"a", "A"} \/ {x, y} = {"b", "B"}

\* Position by position from the front: one for every pair of characters that
\* are not the same letter, one for every character without a partner.
RECURSIVE Differ(_, _)
Differ(a, b) ==
    IF a = <<>> THEN Len(b)
    ELSE IF b = <<>> THEN Len(a)
    ELSE (IF SameLetter(Head(a), Head(b)) THEN 0 ELSE 1) + Differ(Tail(a), Tail(b))

\* C15: calculate_mismatch(a, b) is the difference of the lengths plus the
\* number of positions of the shorter word at which the lowercased words
\* differ; it is 5 for "kaas" and "kaassoort".
C15_MismatchFormula ==
    call.result # -1 =>
        /\ call.result = Differ(call.word1, call.word2)
        /\ call.result >= Abs(Len(call.word1) - Len(call.word2))
        /\ call.result <= Max(Len(call.word1), Len(call.word2))
        /\ (call.word1 = <<"k", "a", "a", "s">>
              /\ call.word2 = <<"k", "a", "a", "s", "s", "o", "o", "r", "t">>)
               => call.result = 5

C15_Witness ==
    call = [word1 |-> <<"k", "a", "a", "s">>,
            word2 |-> <<"k", "a", "a", "s", "s", "o", "o", "r", "t">>,
            result |-> 5]

\* The word between the first and the last character that is not a space.
Trimmed(word) ==
    LET solid == {i \in 1..Len(word) : word[i] # " "}
    IN  IF solid = {} THEN <<>>
        ELSE SubSeq(word, CHOOSE i \in solid : \A j \in solid : i <= j,
                          CHOOSE i \in solid : \A j \in solid : j <= i)

\* A submission of the text `text`, judged as the text `judged`: correct, the
\* card completed and credited and the queue as it was, exactly when the
\* mismatch of `judged` and the target is within the threshold; else
\* incorrect, the card counted as missed and once more in the queue.
JudgedAs(text, judged) ==
    (check_dictee_answer(text) /\ current_card # 0) =>
        IF Differ(judged, Target(cards[current_card].row)) <= mismatch_var
        THEN /\ cards'[current_card].completed
             /\ correct_count' = correct_count + 1
             /\ cards'[current_card].incorrect_count
                   = cards[current_card].incorrect_count
             /\ UNCHANGED <<queue, incorrect_overall>>
        ELSE /\ cards'[current_card].completed = cards[current_card].completed
             /\ cards'[current_card].incorrect_count
                   = cards[current_card].incorrect_count + 1
             /\ incorrect_overall' = incorrect_overall + 1
             /\ Count(queue', current_card) = Count(queue, current_card) + 1
             /\ UNCHANGED correct_count

\* C16 as claimed: the typed text is judged as it was typed.
C16_Claimed == [][\A typed \in DicteeAnswers : JudgedAs(typed, typed)]_vars

\* C16: in typed mode a submission is correct exactly when the mismatch of
\* the typed text, with the spaces before and after it taken off, and the
\* target of the current card, both lowercased, is at most the threshold;
\* else it is incorrect and the card is requeued.  "kaas" for "kaassoort" is
\* incorrect with the threshold 0 and correct with the threshold 5.
C16_TypedOutcome ==
    [][/\ \A typed \in DicteeAnswers : JudgedAs(typed, Trimmed(typed))
       /\ (check_dictee_answer(<<"k", "a", "a", "s">>) /\ current_card # 0
             /\ cards[current_card].row % 4 = 0) =>
              /\ mismatch_var = 0 => incorrect_overall' = incorrect_overall + 1
              /\ mismatch_var >= 5 => correct_count' = correct_count + 1]_vars

\* With the threshold 5 the card of "kaassoort" was judged correct, another
\* card incorrect.
C16_Witness ==
    /\ screen = "session"
    /\ learning_method_var = "dictee"
    /\ mismatch_var >= 5
    /\ \E c \in CardIds :
          /\ cards[c].row % 4 = 0
          /\ cards[c].completed
          /\ cards[c].incorrect_count = 0
    /\ \E c \in CardIds : cards[c].incorrect_count = 1

\* The cards answered incorrectly n times or more.
Selected(n) == {c \in CardIds : cards[c].incorrect_count >= n}

\* The card of Selected(n) with j - 1 cards of Selected(n) before it in
\* self.cards.
SelectedAt(n, j) ==
    CHOOSE c \in Selected(n) : Cardinality({d \in Selected(n) : d < c}) = j - 1

\* The source and the target of the row of card c.
Pair(c) == [source |-> Source(cards[c].row), target |-> Target(cards[c].row)]

\* C17: with n of 1 or more in the spinbox, a list that create_new_list
\* writes holds one row for every card with incorrect_count >= n and no other
\* row, in the order of self.cards, each row the source and the target of its
\* card; cards missed 0, 1, 2, 0 and 3 times give, with n = 2, the rows of the
\* third and the fifth card.
C17_ExportSelection ==
    [][\A n \in NewListChoices :
          (create_new_list(n) /\ error' = "Created new list") =>
              /\ n >= 1
              /\ Len(new_file') = Cardinality(Selected(n))
              /\ \A j \in 1..Len(new_file') : new_file'[j] = Pair(SelectedAt(n, j))
              /\ (n = 2 /\ [c \in CardIds |-> cards[c].incorrect_count]
                              = <<0, 1, 2, 0, 3>>)
                    => new_file' = <<Pair(3), Pair(5)>>]_vars

\* The list written for the cards missed 0, 1, 2, 0 and 3 times with n = 2.
C17_Witness ==
    /\ screen = "end"
    /\ [c \in CardIds |-> cards[c].incorrect_count] = <<0, 1, 2, 0, 3>>
    /\ error = "Created new list"
    /\ new_file = <<Pair(3), Pair(5)>>

\* C18: when no card has incorrect_count >= n, create_new_list reports that
\* no words were found, writes no list and leaves the cards, their counts and
\* the end frame as they are, so that the button can be pressed again with a
\* lower n.
C18_EmptyExport ==
    [][\A n \in NewListChoices :
          (create_new_list(n) /\ Selected(n) = {}) =>
              /\ error' = "No words found"
              /\ UNCHANGED <<new_file, sessionVars, score, message>>
              /\ screen' = "end"]_vars

\* No words were found though a card was missed: a lower n finds it.
C18_Witness ==
    /\ screen = "end"
    /\ error = "No words found"
    /\ new_file = <<>>
    /\ \E c \in CardIds : cards[c].incorrect_count >= 1

\* C19: no session is started on an empty word list.  Loading an empty file,
\* also after a valid one, reports an error and leaves the program on the
\* file selection frame, where the Next button reports an error as well; the
\* settings frame and start_session are reached only with a word list of one
\* row or more, and cards, queues and counts stay as they are until then.
C19_NoEmptySession ==
    /\ [](df = 0 => screen = "file_selection")
    /\ [](screen \in {"session", "end"} => Len(cards) >= 1)
    /\ [][(df' = 0 /\ df # 0) =>
            /\ error' = "Loaded file is empty"
            /\ UNCHANGED <<screen, sessionVars>>]_vars
    /\ [][(df = 0 /\ go_to_settings) =>
            /\ error' = "No valid file loaded"
            /\ UNCHANGED <<screen, sessionVars>>]_vars
    /\ [][(screen = "file_selection" \/ screen = "settings") =>
            \/ UNCHANGED sessionVars
            \/ screen = "settings" /\ df >= 1]_vars

\* An empty file was loaded after a valid one and the Next button pressed.
C19_Witness ==
    /\ df = 0
    /\ next_button = "normal"
    /\ error = "No valid file loaded"
    /\ screen = "file_selection"

\* C20: start_session leaves in self.cards one card for every row of the word
\* list and no other, in some order, each with its scheduling fields at their
\* initial values but for what the first draw does; the queue held those
\* cards in the order of self.cards, so that after the first draw, which is
\* part of start_session, the first card is the current one and the others
\* are in the queue in order.  While the session runs the cards of self.cards
\* stay the same and in place.
C20_CardsArePermutation ==
    /\ [][(screen = "settings" /\ screen' # "settings") =>
            /\ Len(cards') = df
            /\ \A row \in 1..df :
                  Cardinality({i \in 1..Len(cards') : cards'[i].row = row}) = 1
            /\ \A i \in 1..Len(cards') : cards'[i] = NewCard(cards'[i].row)
            /\ <<current_card'>> \o queue' = [i \in 1..df |-> i]
            /\ final_queue' = <<>>]_vars
    /\ [][screen = "session" =>
            /\ Len(cards') = Len(cards)
            /\ \A i \in 1..Len(cards) : cards'[i].row = cards[i].row]_vars

\* The shuffle changed the order of the rows, and a card was answered.
C20_Witness ==
    /\ screen = "session"
    /\ Len(cards) >= 2
    /\ cards[1].row = 2
    /\ \E c \in CardIds : cards[c].incorrect_count >= 1
    /\ \E c \in CardIds : cards[c].completed

\* The incorrect counts of all cards together.
RECURSIVE SumIncorrect(_)
SumIncorrect(cs) ==
    IF cs = <<>> THEN 0 ELSE Head(cs).incorrect_count + SumIncorrect(Tail(cs))

\* C21: incorrect_overall is the sum of incorrect_count over the cards in
\* every state; a step of a running session leaves both as they are or adds
\* exactly one to incorrect_overall and to the incorrect_count of the current
\* card, also when the card was missed before, and takes nothing from any
\* count.
C21_IncorrectTallies ==
    /\ [](incorrect_overall = SumIncorrect(cards))
    /\ [][screen = "session" =>
            /\ \A c \in CardIds : cards'[c].incorrect_count >= cards[c].incorrect_count
            /\ \/ /\ incorrect_overall' = incorrect_overall
                  /\ \A c \in CardIds :
                        cards'[c].incorrect_count = cards[c].incorrect_count
               \/ /\ incorrect_overall' = incorrect_overall + 1
                  /\ current_card # 0
                  /\ \A c \in CardIds :
                        cards'[c].incorrect_count =
                           cards[c].incorrect_count + (IF c = current_card THEN 1 ELSE 0)]_vars

\* A card was missed twice and another once.
C21_Witness ==
    /\ screen = "session"
    /\ incorrect_overall = 3
    /\ \E c, d \in CardIds :
          /\ cards[c].incorrect_count = 2
          /\ cards[d].incorrect_count = 1

\* C22: toggle_fullscreen, pressed at any point of a session, changes the
\* layout and leaves the cards and their fields, both queues, the current
\* card and the tallies as they are; it neither ends the session nor touches
\* a deferred call of next_card.
C22_ToggleFrame ==
    [][state' # state /\ screen = "session" =>
          UNCHANGED <<cards, queue, final_queue, current_card, total_unique,
                      correct_count, incorrect_overall, screen, pending>>]_vars

\* The layout is fullscreen in a typed session with a card requeued and a
\* deferred call of next_card registered.
C22_Witness ==
    /\ screen = "session"
    /\ state = "fullscreen"
    /\ pending > 0
    /\ final_queue # <<>>
    /\ queue # <<>>

\* The card missed first in a self-paced session whose cards are in the
\* order of the file comes back for the first time: the cards before it were
\* answered correctly once each, so that card x was requeued as the x-th
\* answer of the session, into a queue of the Len(cards) - x cards after it.
FirstMissedIsBack ==
    /\ screen = "session"
    /\ learning_method_var = "in_gedachten"
    /\ awaiting
    /\ ~final_pass
    /\ final_queue # <<>>
    /\ current_card = Head(final_queue)
    /\ cards[current_card].incorrect_count = 1

\* The cards presented since that requeue, all of them answered.
ShownSinceRequeue == correct_count + incorrect_overall - current_card

\* C23: a card answered incorrectly while the queue holds 6 cards or more is
\* presented again after at least 3 and at most 6 presentations of other
\* cards, whatever their answers.
C23_BackWithinSix ==
    (FirstMissedIsBack /\ Len(cards) - current_card >= MaxOffset) =>
        (MinOffset <= ShownSinceRequeue /\ ShownSinceRequeue <= MaxOffset)

\* C24: the score on the end frame is the one of the docstring of end_session,
\* (words correct the first time + 1/3 * words wrong exactly once) /
\* total_words * 100, rounded.
C24_ScoreOfDocstring ==
    screen = "end" => score = final_score_thirds(cards)

\* C25: when the end frame is shown every card of the session is completed.
C25_EndMeansAllCompleted == screen = "end" => AllCompleted

\* C26: in every state of a session correct_count is the number of completed
\* cards, so that it lies between 0 and total_unique and the progress shown
\* is at most 100 percent.
C26_CorrectCountIsCompleted ==
    screen = "session" =>
        /\ correct_count = Cardinality({c \in CardIds : cards[c].completed})
        /\ 0 <= correct_count
        /\ correct_count <= total_unique

\* C27: during a session a completed card keeps its incorrect_count and is
\* not scheduled for repetition again.
C27_CompletedIsSettled ==
    [][screen = "session" =>
          \A c \in CardIds :
              cards[c].completed =>
                  /\ cards'[c].incorrect_count = cards[c].incorrect_count
                  /\ (requeue' = NoRequeue \/ requeue'.card # c)]_vars

RECURSIVE SumShown(_)
SumShown(sh) == IF sh = <<>> THEN 0 ELSE Head(sh) + SumShown(Tail(sh))

C29_FinalScheduled ==
    /\ [](/\ \A c \in CardIds :
                 cards[c].final_scheduled = (cards[c].incorrect_count >= 1)
          /\ \A i \in 1..Len(final_queue) :
                 cards[final_queue[i]].final_scheduled)
    /\ [][screen = "session" =>
             \A c \in CardIds :
                 cards[c].final_scheduled => cards'[c].final_scheduled]_vars

C29_Witness ==
    /\ screen = "session"
    /\ final_pass
    /\ final_queue = <<>>
    /\ \E c, d \in CardIds :
           /\ cards[c].final_scheduled
           /\ cards[c].incorrect_count = 2
           /\ ~cards[d].final_scheduled

\* C30: the end frame shows the score 100, and with it the clean sheet
\* message, only when no card of the session was answered incorrectly.
C30_HundredMeansNoMiss ==
    (screen = "end" /\ score = 100) =>
        \A c \in CardIds : cards[c].incorrect_count = 0

====
